---------------------------- MODULE Spec2Model ----------------------------
(***************************************************************************)
(* A model of four leaves of the repository:                               *)
(*   - BLI::Range<T>           (source/blender/blenlib/BLI_range.hpp)      *)
(*   - svm_node_map_range      (intern/cycles/kernel/svm/svm_map_range.h)  *)
(*   - the LANPR operators     (source/blender/editors/lanpr/lanpr_ops.c)  *)
(*   - the palette RNA         (source/blender/makesrna/intern/            *)
(*                              rna_palette.c)                             *)
(* Each leaf has its own specification (SpecRange, SpecMapRange, Spec,     *)
(* SpecGenerate, SpecLineLayers, SpecPalette); the variables of the other  *)
(* leaves stay at their idle values.                                       *)
(***************************************************************************)
EXTENDS Integers, Sequences, FiniteSets, TLC

VARIABLES
  \* ---- BLI::Range<T> and a range-for loop over it
  range_T,            \* the element type T: "uint", "int" or "long"
  m_start,            \* Range::m_start
  m_one_after_last,   \* Range::m_one_after_last
  range_pc,           \* "assert_failed" | "constructed" | "loop" | "done" | "called"
  m_current,          \* Iterator::m_current of the loop's iterator
  yielded,            \* the values operator* has returned, in order
  size_result,        \* what size() returned (NoResult before the call)
  contains_arg,       \* the argument of the last contains() call
  contains_result,    \* what the last contains() call returned
  sliced,             \* the slice(start, size) call made on the range (NoCall before)
  compared,           \* the operator== call made on the range (NoCall before)
  \* ---- svm_node_map_range
  stack,              \* the SVM float stack
  map_range_pc,       \* "node" before the node ran, "stored" after
  div_by_zero,        \* a division by zero was evaluated
  \* ---- the LANPR operators
  scene,                  \* the scene: objects, modifiers, collections (fixed after Init)
  cfra,                   \* scene->r.cfra
  sfra,                   \* scene->r.sfra
  efra,                   \* scene->r.efra
  gpencil_overwrite,      \* scene->lanpr.gpencil_overwrite
  master_mode,            \* scene->lanpr.master_mode
  render_buffer_shared,   \* lanpr_share.render_buffer_shared
  gp,                     \* the grease-pencil data of every grease-pencil object
  exported_texts,         \* the number of "exported_svg" texts in Main
  steps,                  \* the number of operator invocations and user edits so far
  log,                    \* what the last operator invocation did, in order
  \* ---- the line layers of the scenes (ED_lanpr_copy_data / ED_lanpr_free_everything)
  mem,                    \* the guarded-allocator heap: one record per node ever allocated
  line_layers,            \* scene->lanpr.line_layers of every scene: first-to-last node addresses
  scene_pc,               \* every scene: "duplicated" (a struct copy, not yet deep-copied) | "live" | "freed"
  \* ---- a palette and a caller of its RNA functions
  colors,                 \* palette->colors: the addresses of its colors, first to last
  info,                   \* PaletteColor::info of every color there is
  active_color,           \* palette->active_color
  reports,                \* the report list: the errors reported so far
  color_ptr,              \* the PointerRNA of the last call: its data and whether it is still valid
  rna_call,               \* the last call: its number, its function and its value argument
  palette_pc              \* "idle" | "returned" | "crashed" (a NULL color was dereferenced)

range_vars == <<range_T, m_start, m_one_after_last, range_pc, m_current, yielded,
                size_result, contains_arg, contains_result, sliced, compared>>
map_range_vars == <<stack, map_range_pc, div_by_zero>>
lanpr_vars == <<scene, cfra, sfra, efra, gpencil_overwrite, master_mode,
                render_buffer_shared, gp, exported_texts, steps, log>>
layer_vars == <<mem, line_layers, scene_pc>>
palette_vars == <<colors, info, active_color, reports, color_ptr, rna_call, palette_pc>>
data_vars == <<layer_vars, palette_vars>>
vars == <<range_vars, map_range_vars, lanpr_vars, data_vars>>

Pow2(n) ==
  2 ^ n

(***************************************************************************)
(* BLI::Range<T>.  T is uint, int or long.  uint (also the return type of  *)
(* size()) and int are WordBits wide here; long is a signed type wider     *)
(* than uint, as int64_t is.                                               *)
(***************************************************************************)
WordBits == 3

NoResult ==
  0 - 1

UIntValues ==
  0 .. (Pow2(WordBits) - 1)

IntValues ==
  (0 - Pow2(WordBits - 1)) .. (Pow2(WordBits - 1) - 1)

LongValues ==
  (0 - Pow2(WordBits)) .. (Pow2(WordBits) - 1)

TValues(T) ==
  IF T = "uint" THEN UIntValues ELSE IF T = "int" THEN IntValues ELSE LongValues

\* Conversion of a value to uint: modulo 2^WordBits.
ToUInt(x) ==
  x % Pow2(WordBits)

\* size(): m_one_after_last - m_start evaluated in T, converted to uint.
\* In an unsigned T the subtraction wraps; in a signed T a difference that
\* is not representable in T is undefined behaviour: any uint may come out.
SizeOutcomes(T, start, one_after_last) ==
  LET d == one_after_last - start
  IN  IF T = "uint" \/ d \in TValues(T)
        THEN {ToUInt(d)}
        ELSE UIntValues

\* Iterator::operator++: m_current++ evaluated in T.
IncOutcomes(T, x) ==
  IF (x + 1) \in TValues(T)
    THEN {x + 1}
    ELSE IF T = "uint" THEN {0} ELSE TValues(T)

\* Iterator::operator!=
IteratorNotEqual(a, b) ==
  a # b

\* A contains whose upper bound is inclusive; C10 fails for it.
contains_inclusive(start, one_after_last, value) ==
  value >= start /\ value <= one_after_last

\* Range::contains
contains(start, one_after_last, value) ==
  value >= start /\ value < one_after_last

\* A constructor assertion that rejects the empty range; C12 fails for it.
ConstructorAssert_strict(start, one_after_last) ==
  start < one_after_last

\* Range::Range(start, one_after_last): the BLI_assert of the constructor.
ConstructorAssert(start, one_after_last) ==
  start <= one_after_last

\* No call made yet.
NoCall ==
  <<>>

\* Conversion of a uint to T: to int modulo 2^WordBits, into the signed range;
\* to uint and to long the value is kept.
ToT(T, u) ==
  IF T = "int" /\ u >= Pow2(WordBits - 1) THEN u - Pow2(WordBits) ELSE u

\* uint new_start = m_start + start.  With T uint or int the sum is evaluated in
\* uint (m_start converted); with T long it is evaluated in long (an overflow
\* there is undefined behaviour) and then converted to uint.
NewStartOutcomes(T, start_T, start) ==
  IF T = "long" /\ (start_T + start) \notin LongValues
    THEN UIntValues
    ELSE {ToUInt(start_T + start)}

\* new_start + size <= m_one_after_last || size == 0, the sum evaluated in uint;
\* the comparison is made in uint with T uint or int (m_one_after_last
\* converted) and in long with T long.
SliceAssert(T, one_after_last, new_start, size) ==
  \/ ToUInt(new_start + size) <= (IF T = "int" THEN ToUInt(one_after_last)
                                  ELSE one_after_last)
  \/ size = 0

\* Range::slice(start, size) with new_start as computed: whether its assertion
\* holds, the range it constructs, and whether that range's constructor
\* assertion holds.
slice(T, start_T, one_after_last, start, size, new_start) ==
  LET r_start == ToT(T, new_start)
      r_end == ToT(T, ToUInt(new_start + size))
  IN  [start |-> start, size |-> size, new_start |-> new_start,
       assert_ok |-> SliceAssert(T, one_after_last, new_start, size),
       m_start |-> r_start, m_one_after_last |-> r_end,
       constructed |-> ConstructorAssert(r_start, r_end)]

\* operator==(Range a, Range b)
RangeEqual(a_start, a_end, b_start, b_end) ==
  a_start = b_start /\ a_end = b_end

LayersIdle ==
  /\ mem = <<>>
  /\ line_layers = <<>>
  /\ scene_pc = <<>>

PaletteIdle ==
  /\ colors = <<>>
  /\ info = <<>>
  /\ active_color = 0 - 1
  /\ reports = <<>>
  /\ color_ptr = NoCall
  /\ rna_call = NoCall
  /\ palette_pc = "idle"

DataIdle ==
  /\ LayersIdle
  /\ PaletteIdle

MapRangeIdle ==
  /\ stack = <<>>
  /\ map_range_pc = "idle"
  /\ div_by_zero = FALSE

LanprIdle ==
  /\ scene = <<>>
  /\ cfra = 0
  /\ sfra = 0
  /\ efra = 0
  /\ gpencil_overwrite = FALSE
  /\ master_mode = "idle"
  /\ render_buffer_shared = <<>>
  /\ gp = <<>>
  /\ exported_texts = 0
  /\ steps = 0
  /\ log = <<>>

InitRange ==
  /\ range_T \in {"uint", "int", "long"}
  /\ m_start \in TValues(range_T)
  /\ m_one_after_last \in TValues(range_T)
  /\ range_pc = IF ConstructorAssert(m_start, m_one_after_last)
                  THEN "constructed" ELSE "assert_failed"
  /\ m_current = m_start
  /\ yielded = <<>>
  /\ size_result = NoResult
  /\ contains_arg = m_start
  /\ contains_result = NoResult
  /\ sliced = NoCall
  /\ compared = NoCall
  /\ MapRangeIdle
  /\ LanprIdle
  /\ DataIdle

\* for (T v : range): begin()
RangeBegin ==
  /\ range_pc = "constructed"
  /\ m_current' = m_start
  /\ range_pc' = "loop"
  /\ UNCHANGED <<range_T, m_start, m_one_after_last, yielded, size_result,
                 contains_arg, contains_result, sliced, compared,
                 map_range_vars, lanpr_vars, data_vars>>

\* one turn of the loop: it != end(), *it, ++it
RangeIterate ==
  /\ range_pc = "loop"
  /\ IteratorNotEqual(m_current, m_one_after_last)
  /\ yielded' = Append(yielded, m_current)
  /\ m_current' \in IncOutcomes(range_T, m_current)
  /\ UNCHANGED <<range_T, m_start, m_one_after_last, range_pc, size_result,
                 contains_arg, contains_result, sliced, compared,
                 map_range_vars, lanpr_vars, data_vars>>

\* the loop's exit: it == end()
RangeLoopExit ==
  /\ range_pc = "loop"
  /\ ~IteratorNotEqual(m_current, m_one_after_last)
  /\ range_pc' = "done"
  /\ UNCHANGED <<range_T, m_start, m_one_after_last, m_current, yielded, size_result,
                 contains_arg, contains_result, sliced, compared,
                 map_range_vars, lanpr_vars, data_vars>>

\* a call of size()
RangeSize ==
  /\ range_pc \in {"constructed", "loop", "done"}
  /\ size_result = NoResult
  /\ size_result' \in SizeOutcomes(range_T, m_start, m_one_after_last)
  /\ UNCHANGED <<range_T, m_start, m_one_after_last, range_pc, m_current, yielded,
                 contains_arg, contains_result, sliced, compared,
                 map_range_vars, lanpr_vars, data_vars>>

\* a call of contains(v)
RangeContains ==
  /\ range_pc = "done"
  /\ \E v \in TValues(range_T) :
       /\ contains_arg' = v
       /\ contains_result' = IF contains(m_start, m_one_after_last, v) THEN 1 ELSE 0
  /\ UNCHANGED <<range_T, m_start, m_one_after_last, range_pc, m_current, yielded,
                 size_result, sliced, compared,
                 map_range_vars, lanpr_vars, data_vars>>

\* a call of slice(start, size) on the range just constructed, by a caller
\* that keeps the precondition start + size <= size()
RangeSlice ==
  /\ range_pc = "constructed"
  /\ size_result = NoResult
  /\ \E start \in UIntValues, size \in UIntValues :
       /\ start + size <= m_one_after_last - m_start
       /\ \E new_start \in NewStartOutcomes(range_T, m_start, start) :
            sliced' = slice(range_T, m_start, m_one_after_last, start, size, new_start)
  /\ range_pc' = "called"
  /\ UNCHANGED <<range_T, m_start, m_one_after_last, m_current, yielded, size_result,
                 contains_arg, contains_result, compared, map_range_vars, lanpr_vars, data_vars>>

\* a comparison a == b of the range just constructed with another valid range
RangeCompare ==
  /\ range_pc = "constructed"
  /\ size_result = NoResult
  /\ \E b_start \in TValues(range_T), b_end \in TValues(range_T) :
       /\ ConstructorAssert(b_start, b_end)
       /\ compared' = [m_start |-> b_start, m_one_after_last |-> b_end,
                       equal |-> RangeEqual(m_start, m_one_after_last, b_start, b_end)]
  /\ range_pc' = "called"
  /\ UNCHANGED <<range_T, m_start, m_one_after_last, m_current, yielded, size_result,
                 contains_arg, contains_result, sliced, map_range_vars, lanpr_vars, data_vars>>

NextRange ==
  \/ RangeBegin
  \/ RangeIterate
  \/ RangeLoopExit
  \/ RangeSize
  \/ RangeContains
  \/ RangeSlice
  \/ RangeCompare

SpecRange ==
  InitRange /\ [][NextRange]_vars

(***************************************************************************)
(* svm_node_map_range.  A float is modelled as a binary floating-point     *)
(* number with a MantBits-bit significand and an unbounded exponent:       *)
(* <<n, d>> is the rational n/d in lowest terms (d > 0); <<1, 0>>,         *)
(* <<-1, 0>> and <<0, 0>> are +inf, -inf and NaN.  Every arithmetic        *)
(* operation rounds its exact result to nearest, ties to even, as IEEE-754 *)
(* arithmetic does.                                                        *)
(***************************************************************************)
MantBits == 3

\* The stack values offered to the node: integers of these magnitudes that
\* are floats of the format.
MaxValue == 3
MaxFrom == 2
MaxTo == 8

Abs(x) ==
  IF x < 0 THEN 0 - x ELSE x

RECURSIVE GCD(_, _)
GCD(a, b) ==
  IF b = 0 THEN a ELSE GCD(b, a % b)

\* The rational n/d (d > 0) in lowest terms.
Rat(n, d) ==
  LET g == GCD(Abs(n), d)
  IN  <<n \div g, d \div g>>

FZero == <<0, 1>>
FOne == <<1, 1>>
FNaN == <<0, 0>>

IsFinite(x) ==
  x[2] # 0

\* The multipliers <<mn, md>> that bring n/d into [2^(MantBits-1), 2^MantBits).
RECURSIVE Scaled(_, _, _, _)
Scaled(n, d, mn, md) ==
  IF n * mn < Pow2(MantBits - 1) * d * md THEN Scaled(n, d, 2 * mn, md)
  ELSE IF n * mn >= Pow2(MantBits) * d * md THEN Scaled(n, d, mn, 2 * md)
  ELSE <<mn, md>>

\* n/d (n >= 0, d > 0) rounded to an integer, ties to even.
RoundNearestEven(n, d) ==
  LET q == n \div d
      r == n % d
  IN  IF 2 * r > d \/ (2 * r = d /\ q % 2 = 1) THEN q + 1 ELSE q

\* The float nearest to the rational n/d (d > 0).
FRound(n, d) ==
  IF n = 0 THEN FZero
  ELSE LET a == Abs(n)
           s == Scaled(a, d, 1, 1)
           m == RoundNearestEven(a * s[1], d * s[2])
       IN  Rat((IF n < 0 THEN 0 - 1 ELSE 1) * m * s[2], s[1])

\* float a - b
FSub(a, b) ==
  IF ~IsFinite(a) \/ ~IsFinite(b) THEN FNaN
  ELSE FRound(a[1] * b[2] - b[1] * a[2], a[2] * b[2])

\* float a + b
FAdd(a, b) ==
  IF ~IsFinite(a) \/ ~IsFinite(b) THEN FNaN
  ELSE FRound(a[1] * b[2] + b[1] * a[2], a[2] * b[2])

\* float a * b
FMul(a, b) ==
  IF ~IsFinite(a) \/ ~IsFinite(b) THEN FNaN
  ELSE FRound(a[1] * b[1], a[2] * b[2])

\* float a / b: x/0 is an infinity, 0/0 is NaN
FDiv(a, b) ==
  IF ~IsFinite(a) \/ ~IsFinite(b) THEN FNaN
  ELSE IF b[1] = 0 THEN <<(IF a[1] > 0 THEN 1 ELSE IF a[1] < 0 THEN 0 - 1 ELSE 0), 0>>
  ELSE FRound((IF b[1] < 0 THEN 0 - 1 ELSE 1) * a[1] * b[2], a[2] * Abs(b[1]))

\* float a != b: true whenever an operand is NaN
FNotEqual(a, b) ==
  a = FNaN \/ b = FNaN \/ a # b

\* The integers of magnitude at most k that are floats of the format.
FloatInts(lo, hi) ==
  {<<i, 1>> : i \in {j \in lo .. hi : FRound(j, 1) = <<j, 1>>}}

\* A branch condition that lets one degenerate interval through; C8 fails
\* for it.
MapRangeGuard_either(fromMin, fromMax, toMin, toMax) ==
  FNotEqual(fromMax, fromMin) \/ FNotEqual(toMax, toMin)

\* The branch condition of the node.
MapRangeGuard(fromMin, fromMax, toMin, toMax) ==
  FNotEqual(fromMax, fromMin) /\ FNotEqual(toMax, toMin)

\* toMin + ((value - fromMin) / (fromMax - fromMin)) * (toMax - toMin)
MapRangeExpr(value, fromMin, fromMax, toMin, toMax) ==
  FAdd(toMin, FMul(FDiv(FSub(value, fromMin), FSub(fromMax, fromMin)),
                   FSub(toMax, toMin)))

\* The value r the node stores.
MapRangeResult(value, fromMin, fromMax, toMin, toMax) ==
  IF MapRangeGuard(fromMin, fromMax, toMin, toMax)
    THEN MapRangeExpr(value, fromMin, fromMax, toMin, toMax)
    ELSE FZero

\* Whether evaluating the node divides by zero.
MapRangeDivides(value, fromMin, fromMax, toMin, toMax) ==
  /\ MapRangeGuard(fromMin, fromMax, toMin, toMax)
  /\ FSub(fromMax, fromMin) = FZero

RangeIdle ==
  /\ range_T = "uint"
  /\ m_start = 0
  /\ m_one_after_last = 0
  /\ range_pc = "idle"
  /\ m_current = 0
  /\ yielded = <<>>
  /\ size_result = NoResult
  /\ contains_arg = 0
  /\ contains_result = NoResult
  /\ sliced = NoCall
  /\ compared = NoCall

InitMapRange ==
  /\ \E value \in FloatInts(0, MaxValue), fromMin \in FloatInts(0, MaxFrom),
        fromMax \in FloatInts(0, MaxFrom), toMin \in FloatInts(0 - MaxTo, MaxTo),
        toMax \in FloatInts(0 - MaxTo, MaxTo) :
       stack = [value |-> value, fromMin |-> fromMin, fromMax |-> fromMax,
                toMin |-> toMin, toMax |-> toMax, result |-> FNaN]
  /\ map_range_pc = "node"
  /\ div_by_zero = FALSE
  /\ RangeIdle
  /\ LanprIdle
  /\ DataIdle

\* svm_node_map_range: loads the five inputs, stores r
svm_node_map_range ==
  /\ map_range_pc = "node"
  /\ LET value == stack.value
         fromMin == stack.fromMin
         fromMax == stack.fromMax
         toMin == stack.toMin
         toMax == stack.toMax
     IN  /\ stack' = [stack EXCEPT
                        !.result = MapRangeResult(value, fromMin, fromMax, toMin, toMax)]
         /\ div_by_zero' = MapRangeDivides(value, fromMin, fromMax, toMin, toMax)
  /\ map_range_pc' = "stored"
  /\ UNCHANGED <<range_vars, lanpr_vars, data_vars>>

NextMapRange ==
  svm_node_map_range

SpecMapRange ==
  InitMapRange /\ [][NextMapRange]_vars


(***************************************************************************)
(* The LANPR operators (lanpr_ops.c).  An operator runs to completion on   *)
(* the host's single control thread, so each is one action; `log` records  *)
(* the steps of the last invocation in the order the code takes them.      *)
(*                                                                         *)
(* The operator threads a record s = [rb, gp, log] through its calls:      *)
(* s.rb is lanpr_share.render_buffer_shared, s.gp the grease-pencil data.  *)
(***************************************************************************)
MaxFrame == 2
MaxStrokes == 3
MaxTexts == 1
MaxSteps == 3

Frames ==
  1 .. MaxFrame

\* One step of an operator: ev names it; g, l, f are the grease-pencil
\* object, layer index and frame it touches ("-" and 0 when it has none);
\* n is a count or a chain index, c the cached_for_frame of the buffer read;
\* k tells the steps of a modifier pass ("mod") from those of a collection
\* pass ("col").
Ev(ev, g, l, f, n, c) ==
  [ev |-> ev, g |-> g, l |-> l, f |-> f, n |-> n, c |-> c, k |-> "-"]

\* The step e as a step of the pass whose collection argument is col.
OfPass(e, col) ==
  [e EXCEPT !.k = IF col = "NULL" THEN "mod" ELSE "col"]

Logged(s, e) ==
  [s EXCEPT !.log = Append(@, e)]

\* TLC evaluates the argument of an operator when it is used, not when it is
\* passed; Evaluated(s) is true of every s an operator threads (its log starts
\* with the operator's entry), and testing it evaluates s before the next step
\* takes it, which keeps the evaluation of a long handler shallow.
Evaluated(s) ==
  s.log # <<>>

\* lanpr_share.render_buffer_shared == NULL
NullRenderBuffer ==
  [exists |-> FALSE, cached_for_frame |-> 0, chains |-> <<>>]

\* LANPR_RenderLineChain: the fields the operators read.  type is the set of
\* the bits of rlc->type; items is the number of chain items.
Chain(object_ref, type, level, items) ==
  [picked |-> FALSE, object_ref |-> object_ref, type |-> type, level |-> level,
   items |-> items]

\* The chains the feature-line engine finds at a frame.
ChainsAt(frame) ==
  IF frame % 2 = 1
    THEN <<Chain("A", {"CONTOUR"}, 0, 2), Chain("B", {"CREASE"}, 1, 3),
           Chain("NULL", {"INTERSECTION"}, 0, 2)>>
    ELSE <<Chain("B", {"CONTOUR"}, 0, 2), Chain("A", {"CONTOUR"}, 1, 4)>>

\* lanpr_compute_feature_lines_internal(depsgraph, 0): a fresh buffer in
\* lanpr_share, tagged with the frame the depsgraph is evaluated at.  The host
\* hands an operator a depsgraph evaluated at scene->r.cfra; the bake operator
\* re-evaluates it at each frame it bakes.
lanpr_compute_feature_lines_internal(s, frame) ==
  Logged([s EXCEPT !.rb = [exists |-> TRUE, cached_for_frame |-> frame,
                           chains |-> ChainsAt(frame)]],
         Ev("compute", "-", 0, frame, 0, frame))

\* lanpr_chain_clear_picked_flag(rb)
lanpr_chain_clear_picked_flag(s) ==
  Logged([s EXCEPT !.rb.chains = [i \in DOMAIN @ |-> [@[i] EXCEPT !.picked = FALSE]]],
         Ev("clear_picked", "-", 0, 0, 0, s.rb.cached_for_frame))

\* lanpr_count_chain(rlc)
lanpr_count_chain(rlc) ==
  rlc.items

\* A FeatureLineModifierData.
FeatureLine(target, layer, level_begin, level_end, use_multiple_levels, material, types) ==
  [type |-> "FeatureLine", target |-> target, layer |-> layer,
   level_begin |-> level_begin, level_end |-> level_end,
   use_multiple_levels |-> use_multiple_levels, material |-> material, types |-> types]

\* A modifier of another type.
OtherModifier ==
  [type |-> "Other", target |-> "NULL", layer |-> 0, level_begin |-> 0, level_end |-> 0,
   use_multiple_levels |-> FALSE, material |-> 0, types |-> {}]

\* col->lanpr of a collection.
CollectionLanpr(usage, target, layer, level_begin, level_end, use_multiple_levels, material, types) ==
  [usage |-> usage, target |-> target, layer |-> layer, level_begin |-> level_begin,
   level_end |-> level_end, use_multiple_levels |-> use_multiple_levels,
   material |-> material, types |-> types]

AllTypes ==
  {"CONTOUR", "CREASE", "INTERSECTION"}

\* The scenes of the model: mesh objects A and B, grease-pencil objects G1 and
\* G2, the master collection holding A, G1 and G2, and its child collection
\* "sub" holding B.  A carries two feature-line modifiers and one of another
\* type, B one feature-line modifier whose target is no grease-pencil object
\* and one whose target is G2; t2 is the target of A's second modifier.
SceneOf(t2) ==
  [objects |->
     [o \in {"A", "B", "G1", "G2"} |->
        [type |-> IF o \in {"G1", "G2"} THEN "GPENCIL" ELSE "MESH",
         modifiers |->
           IF o = "A"
             THEN <<FeatureLine("G1", 0, 0, 1, FALSE, 1, {"CONTOUR"}),
                    OtherModifier,
                    FeatureLine(t2, 0, 0, 1, TRUE, 2, AllTypes)>>
           ELSE IF o = "B"
             THEN <<FeatureLine("A", 0, 0, 1, TRUE, 3, AllTypes),
                    FeatureLine("G2", 1, 0, 0, FALSE, 3, {"CONTOUR", "CREASE"})>>
             ELSE <<>>]],
   collections |->
     [c \in {"master", "sub"} |->
        IF c = "master"
          THEN [gobject |-> <<"A", "G1", "G2">>, children |-> <<"sub">>,
                lanpr |-> CollectionLanpr("INCLUDE", "G1", 0, 0, 0, FALSE, 4,
                                          {"INTERSECTION", "CREASE"})]
          ELSE [gobject |-> <<"B">>, children |-> <<>>,
                lanpr |-> CollectionLanpr("INCLUDE", "G1", 0, 0, 1, TRUE, 5, AllTypes)]],
   master_collection |-> "master",
   line_layers |-> <<"layer">>]

Scenes ==
  {SceneOf(t2) : t2 \in {"G1", "G2"}}

\* The frame ranges <<sfra, efra>> of the model: the whole timeline, one frame,
\* and an empty range.
FrameRanges ==
  {<<1, MaxFrame>>, <<MaxFrame, MaxFrame>>, <<MaxFrame, 1>>}

GPObjects ==
  {"G1", "G2"}

\* bGPDframe: exists is false until BKE_gpencil_layer_getframe adds the frame;
\* flag is GP_FRAME_LANPR_CLEARED.
NoFrame ==
  [exists |-> FALSE, strokes |-> <<>>, flag |-> FALSE]

\* bGPDlayer
EmptyLayer ==
  [frames |-> [f \in Frames |-> NoFrame]]

\* BKE_gpencil_layer_get_index(gpd, index, 1): the layer at the index, else
\* the first layer; 0 - 1 (NULL) when the object has no layer.
BKE_gpencil_layer_get_index(layers, index) ==
  IF Len(layers) = 0 THEN 0 - 1
  ELSE IF index < Len(layers) THEN index
  ELSE 0

\* gpl = BKE_gpencil_layer_get_index(...); if (!gpl) gpl = BKE_gpencil_layer_addnew(...)
\* and gpf = BKE_gpencil_layer_getframe(gpl, frame, GP_GETFRAME_ADD_NEW)
WithLayerAndFrame(s, g, index, frame) ==
  LET layers == IF BKE_gpencil_layer_get_index(s.gp[g], index) < 0
                  THEN Append(s.gp[g], EmptyLayer) ELSE s.gp[g]
      l == IF BKE_gpencil_layer_get_index(s.gp[g], index) < 0
             THEN Len(layers) - 1 ELSE BKE_gpencil_layer_get_index(s.gp[g], index)
  IN  [s EXCEPT !.gp[g] = [layers EXCEPT ![l + 1].frames[frame].exists = TRUE]]

\* The index of the layer WithLayerAndFrame resolves to.
LayerOf(s, g, index) ==
  IF BKE_gpencil_layer_get_index(s.gp[g], index) < 0
    THEN Len(s.gp[g]) ELSE BKE_gpencil_layer_get_index(s.gp[g], index)

\* BKE_collection_has_object_recursive(col, ob)
RECURSIVE BKE_collection_has_object_recursive(_, _)
BKE_collection_has_object_recursive(col, ob) ==
  \/ \E i \in DOMAIN scene.collections[col].gobject : scene.collections[col].gobject[i] = ob
  \/ \E i \in DOMAIN scene.collections[col].children :
       BKE_collection_has_object_recursive(scene.collections[col].children[i], ob)

\* The chain filters without the level test; C17 fails for them.
ChainRejected_any_level(rlc, ob, qi_begin, qi_end, col, types) ==
  \/ rlc.picked
  \/ (ob # "NULL" /\ rlc.object_ref = "NULL")
  \/ rlc.type \cap types = {}
  \/ (ob # "NULL" /\ ob # rlc.object_ref)
  \/ (col # "NULL" /\ rlc.object_ref # "NULL"
        /\ ~BKE_collection_has_object_recursive(col, rlc.object_ref))

\* The chain filters without the picked test; C4 fails for them.
ChainRejected_ignore_picked(rlc, ob, qi_begin, qi_end, col, types) ==
  \/ (ob # "NULL" /\ rlc.object_ref = "NULL")
  \/ rlc.type \cap types = {}
  \/ (rlc.level > qi_end \/ rlc.level < qi_begin)
  \/ (ob # "NULL" /\ ob # rlc.object_ref)
  \/ (col # "NULL" /\ rlc.object_ref # "NULL"
        /\ ~BKE_collection_has_object_recursive(col, rlc.object_ref))

\* The chain filters of lanpr_generate_gpencil_from_chain, in the code's order.
ChainRejected(rlc, ob, qi_begin, qi_end, col, types) ==
  \/ rlc.picked
  \/ (ob # "NULL" /\ rlc.object_ref = "NULL")
  \/ rlc.type \cap types = {}
  \/ (rlc.level > qi_end \/ rlc.level < qi_begin)
  \/ (ob # "NULL" /\ ob # rlc.object_ref)
  \/ (col # "NULL" /\ rlc.object_ref # "NULL"
        /\ ~BKE_collection_has_object_recursive(col, rlc.object_ref))

\* BKE_gpencil_add_stroke + BKE_gpencil_stroke_add_points + gps->mat_nr: the
\* stroke made of a chain.
StrokeOf(rlc, material_nr) ==
  [totpoints |-> lanpr_count_chain(rlc), mat_nr |-> material_nr]

\* The indices, in list order, of the chains the loop over rb->chains accepts.
\* a holds the arguments: ob, g (the object of gpf), l, f (the layer and frame
\* of gpf), qi_begin, qi_end, material_nr, col, types.  A chain's filters read
\* only the chain itself, so the loop's turns do not depend on each other.
AcceptedChains(rb, a) ==
  SelectSeq([i \in 1 .. Len(rb.chains) |-> i],
            LAMBDA i : ~ChainRejected(rb.chains[i], a.ob, a.qi_begin, a.qi_end,
                                      a.col, a.types))

\* The helper without its test of the master mode; C14 fails for it.
lanpr_generate_gpencil_from_chain_any_mode(s, a) ==
  IF ~s.rb.exists THEN Logged(s, OfPass(Ev("null_rb", a.g, a.l, a.f, 0, 0), a.col))
  ELSE LET acc == AcceptedChains(s.rb, a)
       IN  [rb |-> [s.rb EXCEPT !.chains =
                      [i \in DOMAIN @ |->
                         IF \E k \in DOMAIN acc : acc[k] = i
                           THEN [@[i] EXCEPT !.picked = TRUE] ELSE @[i]]],
            gp |-> [s.gp EXCEPT ![a.g][a.l + 1].frames[a.f].strokes =
                      @ \o [k \in DOMAIN acc |->
                              StrokeOf(s.rb.chains[acc[k]], a.material_nr)]],
            log |-> s.log
                      \o <<OfPass(Ev("pass", a.g, a.l, a.f, Len(acc), s.rb.cached_for_frame),
                                  a.col)>>
                      \o [k \in DOMAIN acc |->
                            OfPass(Ev("stroke", a.g, a.l, a.f, acc[k],
                                      s.rb.cached_for_frame), a.col)]]

\* lanpr_generate_gpencil_from_chain
lanpr_generate_gpencil_from_chain(s, a) ==
  IF ~s.rb.exists THEN Logged(s, OfPass(Ev("null_rb", a.g, a.l, a.f, 0, 0), a.col))
  ELSE IF master_mode # "SOFTWARE" THEN s
  ELSE LET acc == AcceptedChains(s.rb, a)
       IN  [rb |-> [s.rb EXCEPT !.chains =
                      [i \in DOMAIN @ |->
                         IF \E k \in DOMAIN acc : acc[k] = i
                           THEN [@[i] EXCEPT !.picked = TRUE] ELSE @[i]]],
            gp |-> [s.gp EXCEPT ![a.g][a.l + 1].frames[a.f].strokes =
                      @ \o [k \in DOMAIN acc |->
                              StrokeOf(s.rb.chains[acc[k]], a.material_nr)]],
            log |-> s.log
                      \o <<OfPass(Ev("pass", a.g, a.l, a.f, Len(acc), s.rb.cached_for_frame),
                                  a.col)>>
                      \o [k \in DOMAIN acc |->
                            OfPass(Ev("stroke", a.g, a.l, a.f, acc[k],
                                      s.rb.cached_for_frame), a.col)]]

\* The part the two passes share once the target object g and its layer index
\* are known: find or add layer and frame, honour overwrite protection, free
\* the frame's strokes once, emit.  p holds ob, col (one of them "NULL"), the
\* target and lv, the modifier's or the collection's settings.
\* A test that protects no frame; C6 fails for it.
OverwriteProtected_never(gpf) ==
  FALSE

\* if (gpf->strokes.first && !...->scene->lanpr.gpencil_overwrite): the frame
\* is left alone
OverwriteProtected(gpf) ==
  gpf.strokes # <<>> /\ ~gpencil_overwrite

EmitInto(s, p, frame) ==
  LET g == p.target
      l == LayerOf(s, g, p.lv.layer)
      s1 == WithLayerAndFrame(s, g, p.lv.layer, frame)
      gpf == s1.gp[g][l + 1].frames[frame]
      a == [ob |-> p.ob, g |-> g, l |-> l, f |-> frame, qi_begin |-> p.lv.level_begin,
            qi_end |-> IF p.lv.use_multiple_levels THEN p.lv.level_end
                       ELSE p.lv.level_begin,
            material_nr |-> p.lv.material, col |-> p.col, types |-> p.lv.types]
  IN  IF OverwriteProtected(gpf)
        THEN Logged(s1, OfPass(Ev("skip", g, l, frame, Len(gpf.strokes), 0), p.col))
        ELSE lanpr_generate_gpencil_from_chain(
               IF ~gpf.flag
                 THEN Logged([s1 EXCEPT !.gp[g][l + 1].frames[frame].strokes = <<>>,
                                        !.gp[g][l + 1].frames[frame].flag = TRUE],
                             OfPass(Ev("free", g, l, frame, Len(gpf.strokes), 0), p.col))
                 ELSE Logged(s1, OfPass(Ev("kept", g, l, frame, Len(gpf.strokes), 0),
                                        p.col)),
               a)

\* The passes in p, in order, from pass i on.
RECURSIVE EmitPasses(_, _, _, _)
EmitPasses(s, p, i, frame) ==
  IF i > Len(p) THEN s
  ELSE LET t == EmitInto(s, p[i], frame)
       IN  IF Evaluated(t) THEN EmitPasses(t, p, i + 1, frame) ELSE t

\* The modifiers of ob that lanpr_update_gp_strokes_recursive emits for, in
\* order: feature-line modifiers whose target is a grease-pencil object (and is
\* target_only, when that is given).
ModifierPasses(ob, target_only) ==
  LET mds == scene.objects[ob].modifiers
      idx == SelectSeq([i \in 1 .. Len(mds) |-> i],
                       LAMBDA i : /\ mds[i].type = "FeatureLine"
                                  /\ mds[i].target # "NULL"
                                  /\ scene.objects[mds[i].target].type = "GPENCIL"
                                  /\ ~(target_only # "NULL" /\ target_only # mds[i].target))
  IN  [k \in DOMAIN idx |->
         [ob |-> ob, col |-> "NULL", target |-> mds[idx[k]].target, lv |-> mds[idx[k]]]]

\* for (co = col->gobject.first; co; co = co->next), from object i on
RECURSIVE ObjectPassesFrom(_, _, _)
ObjectPassesFrom(col, i, target_only) ==
  IF i > Len(scene.collections[col].gobject) THEN <<>>
  ELSE ModifierPasses(scene.collections[col].gobject[i], target_only)
         \o ObjectPassesFrom(col, i + 1, target_only)

\* The passes of lanpr_update_gp_strokes_recursive on col, in the order the
\* code reaches them: the objects of col, then its children; with source_only
\* the loop body runs once, on source_only, and the function returns.
RECURSIVE RecursivePasses(_, _, _)
RECURSIVE RecursiveChildrenFrom(_, _, _, _)
RecursiveChildrenFrom(col, i, source_only, target_only) ==
  IF i > Len(scene.collections[col].children) THEN <<>>
  ELSE RecursivePasses(scene.collections[col].children[i], source_only, target_only)
         \o RecursiveChildrenFrom(col, i + 1, source_only, target_only)

RecursivePasses(col, source_only, target_only) ==
  IF source_only # "NULL"
    THEN ModifierPasses(source_only, target_only)
    ELSE ObjectPassesFrom(col, 1, target_only)
           \o RecursiveChildrenFrom(col, 1, source_only, target_only)

lanpr_update_gp_strokes_recursive(s, col, frame, source_only, target_only) ==
  EmitPasses(s, RecursivePasses(col, source_only, target_only), 1, frame)

\* The passes of lanpr_update_gp_strokes_collection on col: its children first
\* (depth first, unless this_only), then col itself when it is included and
\* has a target (which is target_only, when that is given).
RECURSIVE CollectionPasses(_, _, _)
RECURSIVE CollectionChildrenFrom(_, _, _, _)
CollectionChildrenFrom(col, i, this_only, target_only) ==
  IF i > Len(scene.collections[col].children) THEN <<>>
  ELSE CollectionPasses(scene.collections[col].children[i], this_only, target_only)
         \o CollectionChildrenFrom(col, i + 1, this_only, target_only)

CollectionPasses(col, this_only, target_only) ==
  LET lanpr == scene.collections[col].lanpr
  IN  (IF ~this_only THEN CollectionChildrenFrom(col, 1, this_only, target_only)
                     ELSE <<>>)
        \o (IF lanpr.usage # "INCLUDE" \/ lanpr.target = "NULL" THEN <<>>
            ELSE IF target_only # "NULL" /\ target_only # lanpr.target THEN <<>>
            ELSE <<[ob |-> "NULL", col |-> col, target |-> lanpr.target, lv |-> lanpr]>>)

lanpr_update_gp_strokes_collection(s, col, frame, this_only, target_only) ==
  EmitPasses(s, CollectionPasses(col, this_only, target_only), 1, frame)

\* lanpr_clear_gp_lanpr_flags(dg, frame): on every grease-pencil object of the
\* depsgraph, the frame at `frame` of every layer loses GP_FRAME_LANPR_CLEARED.
lanpr_clear_gp_lanpr_flags(s, frame) ==
  Logged([s EXCEPT !.gp =
            [g \in DOMAIN @ |->
               IF scene.objects[g].type = "GPENCIL"
                 THEN [l \in DOMAIN @[g] |->
                         IF @[g][l].frames[frame].exists
                           THEN [@[g][l] EXCEPT !.frames[frame].flag = FALSE]
                           ELSE @[g][l]]
                 ELSE @[g]]],
         Ev("clear_flags", "-", 0, frame, 0, 0))

\* The state an operator starts from, its log opened.
Entry(op) ==
  [rb |-> render_buffer_shared, gp |-> gp,
   log |-> <<Ev(op, "-", 0, cfra, IF gpencil_overwrite THEN 1 ELSE 0, 0)>>]

\* A computation on every invocation; C1 fails for it.
ComputeIfStale_always(s, frame) ==
  lanpr_compute_feature_lines_internal(s, frame)

\* if (!rb || rb->cached_for_frame != frame) lanpr_compute_feature_lines_internal(dg, 0)
ComputeIfStale(s, frame) ==
  IF ~s.rb.exists \/ s.rb.cached_for_frame # frame
    THEN lanpr_compute_feature_lines_internal(s, frame)
    ELSE s

\* An update-strokes that does not clear the picked flags; C3 fails for it.
lanpr_update_gp_strokes_exec_keep_picked ==
  LET frame == cfra
      s1 == ComputeIfStale(Entry("update_gp_strokes"), frame)
      s3 == lanpr_update_gp_strokes_recursive(s1, scene.master_collection, frame,
                                              "NULL", "NULL")
      s4 == lanpr_update_gp_strokes_collection(s3, scene.master_collection, frame,
                                               FALSE, "NULL")
      s5 == lanpr_clear_gp_lanpr_flags(s4, frame)
  IN  Logged(s5, Ev("finished", "-", 0, frame, 0, 0))

lanpr_update_gp_strokes_exec ==
  LET frame == cfra
      s1 == ComputeIfStale(Entry("update_gp_strokes"), frame)
      s2 == lanpr_chain_clear_picked_flag(s1)
      s3 == lanpr_update_gp_strokes_recursive(s2, scene.master_collection, frame,
                                              "NULL", "NULL")
      s4 == lanpr_update_gp_strokes_collection(s3, scene.master_collection, frame,
                                               FALSE, "NULL")
      s5 == lanpr_clear_gp_lanpr_flags(s4, frame)
  IN  Logged(s5, Ev("finished", "-", 0, frame, 0, 0))

lanpr_update_gp_target_exec(gpo) ==
  LET frame == cfra
      s1 == ComputeIfStale(Entry("update_gp_target"), frame)
      s2 == lanpr_chain_clear_picked_flag(s1)
      s3 == lanpr_update_gp_strokes_recursive(s2, scene.master_collection, frame,
                                              "NULL", gpo)
      s4 == lanpr_update_gp_strokes_collection(s3, scene.master_collection, frame,
                                               FALSE, gpo)
      s5 == lanpr_clear_gp_lanpr_flags(s4, frame)
  IN  Logged(s5, Ev("finished", "-", 0, frame, 0, 0))

lanpr_update_gp_source_exec(source_obj) ==
  LET frame == cfra
      s1 == ComputeIfStale(Entry("update_gp_source"), frame)
      s2 == lanpr_chain_clear_picked_flag(s1)
      s3 == lanpr_update_gp_strokes_recursive(s2, scene.master_collection, frame,
                                              source_obj, "NULL")
      s4 == lanpr_update_gp_strokes_collection(s3, scene.master_collection, frame,
                                               FALSE, "NULL")
      s5 == lanpr_clear_gp_lanpr_flags(s4, frame)
  IN  Logged(s5, Ev("finished", "-", 0, frame, 0, 0))

\* One turn of the bake loop.
BakeFrame(s, frame) ==
  LET s0 == Logged(s, Ev("eval", "-", 0, frame, 0, 0))
      s1 == lanpr_compute_feature_lines_internal(s0, frame)
      s2 == lanpr_chain_clear_picked_flag(s1)
      s3 == lanpr_update_gp_strokes_recursive(s2, scene.master_collection, frame,
                                              "NULL", "NULL")
  IN  lanpr_update_gp_strokes_collection(s3, scene.master_collection, frame, FALSE, "NULL")

\* A bake loop that stops one frame early; C7 fails for it.
RECURSIVE BakeFrom_exclusive(_, _, _)
BakeFrom_exclusive(s, frame, frame_end) ==
  IF frame < frame_end
    THEN LET t == BakeFrame(s, frame)
         IN  IF Evaluated(t) THEN BakeFrom_exclusive(t, frame + 1, frame_end) ELSE t
    ELSE s

\* for (frame = frame_begin; frame <= frame_end; frame++), from `frame` on
RECURSIVE BakeFrom(_, _, _)
BakeFrom(s, frame, frame_end) ==
  IF frame <= frame_end
    THEN LET t == BakeFrame(s, frame)
         IN  IF Evaluated(t) THEN BakeFrom(t, frame + 1, frame_end) ELSE t
    ELSE s

lanpr_bake_gp_strokes_exec ==
  Logged(BakeFrom(Entry("bake_gp_strokes"), sfra, efra), Ev("finished", "-", 0, cfra, 0, 0))

\* ED_lanpr_update_data_for_external
ED_lanpr_update_data_for_external ==
  IF master_mode # "SOFTWARE"
    THEN Entry("update_data_for_external")
    ELSE ComputeIfStale(Entry("update_data_for_external"), cfra)

\* for (ll = lanpr->line_layers.first; ll; ll = ll->next): one text and one
\* read of the buffer's chains per line layer, from line layer i on.
RECURSIVE ExportFrom(_, _)
ExportFrom(s, i) ==
  IF i > Len(scene.line_layers) THEN s
  ELSE ExportFrom(Logged(s, Ev("read_svg", "-", 0, cfra, i, s.rb.cached_for_frame)), i + 1)

lanpr_export_svg_exec ==
  Logged(ExportFrom(Entry("export_svg"), 1), Ev("finished", "-", 0, cfra, 0, 0))

\* lanpr_render_buffer_found: the poll of the export operator
lanpr_render_buffer_found ==
  render_buffer_shared.exists

\* lanpr_active_is_gpencil_object
lanpr_active_is_gpencil_object(o) ==
  scene.objects[o].type = "GPENCIL"

\* lanpr_active_is_source_object
lanpr_active_is_source_object(o) ==
  /\ scene.objects[o].type = "MESH"
  /\ \E i \in DOMAIN scene.objects[o].modifiers :
       scene.objects[o].modifiers[i].type = "FeatureLine"

\* No frame holds more than MaxStrokes strokes.
WithinBounds(s) ==
  \A g \in DOMAIN s.gp : \A l \in DOMAIN s.gp[g] : \A f \in Frames :
    Len(s.gp[g][l].frames[f].strokes) <= MaxStrokes

\* One more step of the run, while the run is shorter than MaxSteps.
Step ==
  /\ steps < MaxSteps
  /\ steps' = steps + 1

Returned(s) ==
  /\ WithinBounds(s)
  /\ Step
  /\ render_buffer_shared' = s.rb
  /\ gp' = s.gp
  /\ log' = s.log

Init ==
  /\ scene \in Scenes
  /\ cfra = 1
  /\ \E r \in FrameRanges : sfra = r[1] /\ efra = r[2]
  /\ gpencil_overwrite = TRUE
  /\ master_mode = "SOFTWARE"
  /\ render_buffer_shared = NullRenderBuffer
  /\ gp = [g \in GPObjects |-> IF g = "G1" THEN <<EmptyLayer>> ELSE <<>>]
  /\ exported_texts = 0
  /\ steps = 0
  /\ log = <<>>
  /\ RangeIdle
  /\ MapRangeIdle
  /\ DataIdle

\* The host changes the current frame.
SetFrame ==
  /\ \E f \in Frames : f # cfra /\ cfra' = f
  /\ Step
  /\ log' = <<>>
  /\ UNCHANGED <<scene, sfra, efra, gpencil_overwrite, master_mode, render_buffer_shared,
                 gp, exported_texts, range_vars, map_range_vars, data_vars>>

\* The user switches scene.lanpr.gpencil_overwrite.
SetOverwrite ==
  /\ gpencil_overwrite' = ~gpencil_overwrite
  /\ Step
  /\ log' = <<>>
  /\ UNCHANGED <<scene, cfra, sfra, efra, master_mode, render_buffer_shared,
                 gp, exported_texts, range_vars, map_range_vars, data_vars>>

\* The user switches scene.lanpr.master_mode.
SetMasterMode ==
  /\ master_mode' = IF master_mode = "SOFTWARE" THEN "DPIX" ELSE "SOFTWARE"
  /\ Step
  /\ log' = <<>>
  /\ UNCHANGED <<scene, cfra, sfra, efra, gpencil_overwrite, render_buffer_shared,
                 gp, exported_texts, range_vars, map_range_vars, data_vars>>

UpdateStrokes ==
  /\ \E s \in {lanpr_update_gp_strokes_exec} : Returned(s)
  /\ UNCHANGED <<scene, cfra, sfra, efra, gpencil_overwrite, master_mode,
                 exported_texts, range_vars, map_range_vars, data_vars>>

UpdateTarget ==
  /\ \E gpo \in DOMAIN scene.objects :
       /\ lanpr_active_is_gpencil_object(gpo)
       /\ \E s \in {lanpr_update_gp_target_exec(gpo)} : Returned(s)
  /\ UNCHANGED <<scene, cfra, sfra, efra, gpencil_overwrite, master_mode,
                 exported_texts, range_vars, map_range_vars, data_vars>>

UpdateSource ==
  /\ \E source_obj \in DOMAIN scene.objects :
       /\ lanpr_active_is_source_object(source_obj)
       /\ \E s \in {lanpr_update_gp_source_exec(source_obj)} : Returned(s)
  /\ UNCHANGED <<scene, cfra, sfra, efra, gpencil_overwrite, master_mode,
                 exported_texts, range_vars, map_range_vars, data_vars>>

Bake ==
  /\ \E s \in {lanpr_bake_gp_strokes_exec} : Returned(s)
  /\ UNCHANGED <<scene, cfra, sfra, efra, gpencil_overwrite, master_mode,
                 exported_texts, range_vars, map_range_vars, data_vars>>

UpdateExternal ==
  /\ \E s \in {ED_lanpr_update_data_for_external} : Returned(s)
  /\ UNCHANGED <<scene, cfra, sfra, efra, gpencil_overwrite, master_mode,
                 exported_texts, range_vars, map_range_vars, data_vars>>

ExportSvg ==
  /\ lanpr_render_buffer_found
  /\ exported_texts + Len(scene.line_layers) <= MaxTexts
  /\ \E s \in {lanpr_export_svg_exec} : Returned(s)
  /\ exported_texts' = exported_texts + Len(scene.line_layers)
  /\ UNCHANGED <<scene, cfra, sfra, efra, gpencil_overwrite, master_mode,
                 range_vars, map_range_vars, data_vars>>

Next ==
  \/ SetFrame
  \/ SetOverwrite
  \/ SetMasterMode
  \/ UpdateStrokes
  \/ UpdateTarget
  \/ UpdateSource
  \/ Bake
  \/ UpdateExternal
  \/ ExportSvg

Spec ==
  Init /\ [][Next]_vars

(***************************************************************************)
(* lanpr_generate_gpencil_from_chain on its own: one call of the helper,   *)
(* with any arguments, on any buffer (none, or one whose chains earlier    *)
(* passes have picked in part) and in any master mode.                     *)
(***************************************************************************)
\* The chains found at a frame, those with an index in S picked.
PickedChains(frame, S) ==
  [i \in DOMAIN ChainsAt(frame) |-> [ChainsAt(frame)[i] EXCEPT !.picked = i \in S]]

\* The buffers the helper may find in lanpr_share.
RenderBuffers ==
  {NullRenderBuffer}
    \cup {[exists |-> TRUE, cached_for_frame |-> f, chains |-> PickedChains(f, S)] :
            f \in Frames, S \in SUBSET (1 .. 3)}

\* The arguments of a call: ob and col ("NULL" when not given), the type mask,
\* the level range, and the target frame gpf (frame cfra of layer 0 of G1).
GenerateArguments ==
  [ob : {"NULL", "A", "B"}, col : {"NULL", "master", "sub"},
   types : {{"CONTOUR"}, {"CREASE", "INTERSECTION"}, AllTypes, {}},
   qi_begin : 0 .. 1, qi_end : 0 .. 1, material_nr : {1},
   g : {"G1"}, l : {0}, f : {1}]

InitGenerate ==
  /\ scene = SceneOf("G1")
  /\ cfra = 1
  /\ sfra = 1
  /\ efra = MaxFrame
  /\ gpencil_overwrite = TRUE
  /\ master_mode \in {"SOFTWARE", "DPIX"}
  /\ render_buffer_shared \in RenderBuffers
  /\ \E strokes \in {<<>>, <<[totpoints |-> 2, mat_nr |-> 7]>>} :
       gp = [g \in GPObjects |->
               IF g = "G1"
                 THEN <<[EmptyLayer EXCEPT
                           !.frames[1] = [exists |-> TRUE, strokes |-> strokes,
                                          flag |-> TRUE]]>>
                 ELSE <<>>]
  /\ exported_texts = 0
  /\ steps = 0
  /\ log = <<>>
  /\ RangeIdle
  /\ MapRangeIdle
  /\ DataIdle

\* One call of the helper; the log opens with the call's arguments.
Generate ==
  /\ log = <<>>
  /\ \E a \in GenerateArguments :
       \E s \in {lanpr_generate_gpencil_from_chain(
                    [rb |-> render_buffer_shared, gp |-> gp,
                     log |-> <<[Ev("generate", a.g, a.l, a.f, 0, 0) EXCEPT !.k = a]>>],
                    a)} :
         /\ render_buffer_shared' = s.rb
         /\ gp' = s.gp
         /\ log' = s.log
  /\ UNCHANGED <<scene, cfra, sfra, efra, gpencil_overwrite, master_mode, exported_texts,
                 steps, range_vars, map_range_vars, data_vars>>

NextGenerate ==
  Generate

SpecGenerate ==
  InitGenerate /\ [][NextGenerate]_vars

(***************************************************************************)
(* The claims.  The operators below read the log of the last invocation.   *)
(***************************************************************************)
UpdateOps ==
  {"update_gp_strokes", "update_gp_target", "update_gp_source"}

EmittingOps ==
  UpdateOps \cup {"bake_gp_strokes"}

\* The steps of an emission pass.
PassSteps ==
  {"skip", "free", "kept", "pass", "stroke", "null_rb"}

\* The operator the log is of ("-" when the last step was no operator).
OpName ==
  IF log = <<>> THEN "-" ELSE log[1].ev

\* The positions in l of the calls of the feature-line computation.
Computes(l) ==
  {i \in DOMAIN l : l[i].ev = "compute"}

\* The position where the part of the log that step i belongs to starts: the
\* last re-evaluation of the scene (a turn of the bake loop) at or before i,
\* else the operator's entry.
PartStart(i) ==
  CHOOSE j \in 1 .. i :
    /\ j = 1 \/ log[j].ev = "eval"
    /\ \A k \in (j + 1) .. i : log[k].ev # "eval"

SameFrame(d, e) ==
  d.g = e.g /\ d.l = e.l /\ d.f = e.f

IsPrefix(a, b) ==
  Len(a) <= Len(b) /\ \A i \in DOMAIN a : a[i] = b[i]

\* C1: update-strokes, update-target, update-source and, in software mode,
\* ED_lanpr_update_data_for_external call the feature-line computation once,
\* for the current frame, exactly when the shared buffer is absent or stamped
\* with another frame, and not at all otherwise; of two consecutive
\* invocations at the same frame at most one computes.
C1_LazyRecompute ==
  [][(/\ log' # <<>>
      /\ \/ log'[1].ev \in UpdateOps
         \/ log'[1].ev = "update_data_for_external" /\ master_mode = "SOFTWARE")
     => /\ Cardinality(Computes(log')) =
             IF ~render_buffer_shared.exists
                  \/ render_buffer_shared.cached_for_frame # cfra THEN 1 ELSE 0
        /\ \A i \in Computes(log') : log'[i].f = cfra
        /\ render_buffer_shared'.exists
        /\ render_buffer_shared'.cached_for_frame = cfra
        /\ (/\ log # <<>>
            /\ log[1].ev \in UpdateOps \cup {"update_data_for_external"}
            /\ Computes(log) # {}) => Computes(log') = {}]_vars

\* C1 witness: an update operator found a buffer stamped with the current
\* frame, did not recompute, and emitted strokes from it.
C1_Witness ==
  /\ OpName \in UpdateOps
  /\ Computes(log) = {}
  /\ \E i \in DOMAIN log : log[i].ev = "stroke"

\* C2: whenever a consumer reads the chains of the shared buffer (an emission
\* pass of an operator, the SVG export), the buffer's cached_for_frame is the
\* frame the consumer works on.
C2_ConsumersReadCurrentFrame ==
  \A i \in DOMAIN log :
    log[i].ev \in {"pass", "read_svg"} => log[i].c = log[i].f

\* C3: in every stroke-emitting operator, and in every turn of the bake loop,
\* the picked flags are cleared after the (possible) recomputation and before
\* the first step of an emission pass; so when the operator returns, the picked
\* chains are exactly those the last part emitted a stroke for.
C3_PickedClearedBeforeEmission ==
  OpName \in EmittingOps =>
    /\ \A i \in DOMAIN log :
         log[i].ev \in PassSteps =>
           \E j \in PartStart(i) .. i :
             /\ log[j].ev = "clear_picked"
             /\ \A k \in j .. i : log[k].ev # "compute"
    /\ (\E j \in PartStart(Len(log)) .. Len(log) : log[j].ev = "clear_picked") =>
         \A c \in DOMAIN render_buffer_shared.chains :
           render_buffer_shared.chains[c].picked <=>
             \E i \in PartStart(Len(log)) .. Len(log) :
               log[i].ev = "stroke" /\ log[i].n = c

\* C3 witness: an update operator reused the cached buffer, whose chains were
\* picked by the invocation before, and emitted strokes for them again.
C3_Witness ==
  /\ OpName \in UpdateOps
  /\ Computes(log) = {}
  /\ \E i \in DOMAIN log : log[i].ev = "stroke"
  /\ \E i \in DOMAIN log : log[i].ev = "clear_picked"

\* C4: within one invocation (one turn of the bake loop) no chain yields more
\* than one stroke, over all modifier passes and collection passes.
C4_OneStrokePerChain ==
  \A i, j \in DOMAIN log :
    (/\ i < j
     /\ log[i].ev = "stroke"
     /\ log[j].ev = "stroke"
     /\ log[i].n = log[j].n) => PartStart(i) # PartStart(j)

\* C4 witness: a pass emitted a stroke, and a later pass of the same
\* invocation, into the same frame, emitted another.
C4_Witness ==
  \E i, j \in DOMAIN log :
    /\ i < j
    /\ log[i].ev = "stroke"
    /\ log[j].ev = "stroke"
    /\ SameFrame(log[i], log[j])
    /\ PartStart(i) = PartStart(j)
    /\ \E k \in (i + 1) .. (j - 1) : log[k].ev = "pass"

\* C5: within one invocation with overwriting allowed, the strokes found on a
\* target frame are freed exactly once, by the first pass that targets the
\* frame; later passes free nothing, and the strokes all passes emitted are on
\* the frame when the operator returns.
C5_FreedOnceByFirstPass ==
  (OpName \in EmittingOps /\ log[1].n = 1) =>
    \A i \in DOMAIN log :
      log[i].ev \in {"free", "kept"} =>
        /\ log[i].ev = "free" <=>
             ~\E j \in 1 .. (i - 1) :
                log[j].ev \in {"free", "kept"} /\ SameFrame(log[j], log[i])
        /\ Len(gp[log[i].g][log[i].l + 1].frames[log[i].f].strokes) =
             Cardinality({j \in DOMAIN log :
                            log[j].ev = "stroke" /\ SameFrame(log[j], log[i])})

\* C6: with overwrite protection set no stroke-emitting operator removes a
\* stroke: the strokes of every frame before the invocation are still there,
\* in order, after it; no pass frees a frame that holds strokes; a pass that
\* finds strokes on its frame emits nothing and leaves the frame as it is; and
\* when every pass was skipped no chain is picked.
C6_ProtectionKeepsStrokes ==
  [][(/\ log' # <<>>
      /\ log'[1].ev \in EmittingOps
      /\ ~gpencil_overwrite)
     => /\ \A g \in DOMAIN gp : \A l \in DOMAIN gp[g] : \A f \in Frames :
             IsPrefix(gp[g][l].frames[f].strokes, gp'[g][l].frames[f].strokes)
        /\ \A i \in DOMAIN log' : log'[i].ev = "free" => log'[i].n = 0
        /\ \A i \in DOMAIN log' :
             log'[i].ev = "skip" =>
               /\ log'[i].n > 0
               /\ log'[i + 1].ev \notin {"pass", "stroke"}
        /\ \A g \in DOMAIN gp : \A l \in DOMAIN gp[g] : \A f \in Frames :
             (~\E i \in DOMAIN log' :
                 /\ log'[i].ev \in {"free", "kept"}
                 /\ SameFrame(log'[i], [g |-> g, l |-> l - 1, f |-> f])) =>
               /\ gp'[g][l].frames[f].strokes = gp[g][l].frames[f].strokes
               /\ \/ gp'[g][l].frames[f].flag = gp[g][l].frames[f].flag
                  \/ \E i \in DOMAIN log' :
                       log'[i].ev = "clear_flags" /\ log'[i].f = f
        /\ (/\ \A i \in DOMAIN log' : log'[i].ev # "stroke"
            /\ \E i \in DOMAIN log' : log'[i].ev = "clear_picked") =>
             \A c \in DOMAIN render_buffer_shared'.chains :
               ~render_buffer_shared'.chains[c].picked]_vars

\* C6 witness: under overwrite protection a pass reached a frame that held
\* strokes and skipped it.
C6_Witness ==
  /\ OpName \in EmittingOps
  /\ log[1].n = 0
  /\ \E i \in DOMAIN log : log[i].ev = "skip" /\ log[i].n > 0

\* The positions of the re-evaluations of the scene, in order.
EvalPositions ==
  SelectSeq([i \in 1 .. Len(log) |-> i], LAMBDA i : log[i].ev = "eval")

\* C7: the bake operator handles the frames sfra .. efra once each, in
\* increasing order; for each it re-evaluates the scene at the frame,
\* recomputes, clears the picked flags and then emits for that frame, modifier
\* passes before collection passes; it ends finished, also when sfra > efra,
\* where it handles no frame.
C7_BakeFramesInOrder ==
  OpName = "bake_gp_strokes" =>
    LET ev == EvalPositions
        n == IF efra >= sfra THEN efra - sfra + 1 ELSE 0
    IN  /\ Len(ev) = n
        /\ log[Len(log)].ev = "finished"
        /\ n = 0 => Len(log) = 2
        /\ n > 0 => ev[1] = 2
        /\ \A k \in 1 .. n :
             LET last == IF k < n THEN ev[k + 1] - 1 ELSE Len(log) - 1
             IN  /\ log[ev[k]].f = sfra + k - 1
                 /\ log[ev[k] + 1].ev = "compute"
                 /\ log[ev[k] + 1].f = sfra + k - 1
                 /\ log[ev[k] + 2].ev = "clear_picked"
                 /\ \A i \in (ev[k] + 3) .. last :
                      /\ log[i].ev \in PassSteps
                      /\ log[i].f = sfra + k - 1
                      /\ log[i].k = "mod" =>
                           \A j \in (ev[k] + 3) .. i : log[j].k = "mod"

\* C7 witness: a bake over more than one frame that emitted strokes in its
\* first and in its last frame.
C7_Witness ==
  /\ OpName = "bake_gp_strokes"
  /\ sfra < efra
  /\ \E i \in DOMAIN log : log[i].ev = "stroke" /\ log[i].f = sfra
  /\ \E i \in DOMAIN log : log[i].ev = "stroke" /\ log[i].f = efra

\* Exact arithmetic on rationals <<n, d>> (d > 0, lowest terms), the reference
\* the float results are compared with.
RAdd(a, b) ==
  Rat(a[1] * b[2] + b[1] * a[2], a[2] * b[2])

RSub(a, b) ==
  Rat(a[1] * b[2] - b[1] * a[2], a[2] * b[2])

RMul(a, b) ==
  Rat(a[1] * b[1], a[2] * b[2])

\* a / b for b # 0
RDiv(a, b) ==
  Rat((IF b[1] < 0 THEN 0 - 1 ELSE 1) * a[1] * b[2], a[2] * Abs(b[1]))

\* The float nearest to the rational x.
Fl(x) ==
  FRound(x[1], x[2])

\* The reference remap in exact arithmetic (fromMin # fromMax).
ExactRemap(value, fromMin, fromMax, toMin, toMax) ==
  RAdd(toMin, RMul(RDiv(RSub(value, fromMin), RSub(fromMax, fromMin)),
                   RSub(toMax, toMin)))

\* C8 (as stated): the node stores the exact linear remap when both intervals
\* are non-degenerate, with value = fromMin giving toMin and value = fromMax
\* giving toMax, and 0 otherwise; it never divides by zero.
C8_ExactRemap ==
  map_range_pc = "stored" =>
    /\ ~div_by_zero
    /\ IF stack.fromMin # stack.fromMax /\ stack.toMin # stack.toMax
         THEN /\ stack.result = ExactRemap(stack.value, stack.fromMin, stack.fromMax,
                                           stack.toMin, stack.toMax)
              /\ stack.value = stack.fromMin => stack.result = stack.toMin
              /\ stack.value = stack.fromMax => stack.result = stack.toMax
         ELSE stack.result = FZero

\* C8 (amended): for finite inputs the node never divides by zero; it stores 0
\* when an interval is degenerate, and otherwise the remap with every
\* operation rounded to the nearest float, which is the exact remap whenever no
\* operation rounds; value = fromMin gives toMin; value = fromMax gives the
\* float sum of toMin and the float difference toMax - toMin, which is toMax
\* whenever toMax - toMin is a float.
C8_RoundedRemap ==
  map_range_pc = "stored" =>
    LET value == stack.value
        fromMin == stack.fromMin
        fromMax == stack.fromMax
        toMin == stack.toMin
        toMax == stack.toMax
        a == RSub(value, fromMin)
        b == RSub(fromMax, fromMin)
        t == RSub(toMax, toMin)
        q == RDiv(Fl(a), Fl(b))
        p == RMul(Fl(q), Fl(t))
        r == RAdd(toMin, Fl(p))
    IN  /\ ~div_by_zero
        /\ IF fromMin # fromMax /\ toMin # toMax
             THEN /\ stack.result = Fl(r)
                  /\ (Fl(a) = a /\ Fl(b) = b /\ Fl(t) = t /\ Fl(q) = q /\ Fl(p) = p
                        /\ Fl(r) = r) =>
                       stack.result = ExactRemap(value, fromMin, fromMax, toMin, toMax)
                  /\ value = fromMin => stack.result = toMin
                  /\ value = fromMax => stack.result = Fl(RAdd(toMin, Fl(t)))
                  /\ (value = fromMax /\ Fl(t) = t) => stack.result = toMax
             ELSE stack.result = FZero

\* C8 witness: both intervals are non-degenerate, value is fromMax, and the
\* stored result is not toMax.
C8_Witness ==
  /\ map_range_pc = "stored"
  /\ stack.fromMin # stack.fromMax
  /\ stack.toMin # stack.toMax
  /\ stack.value = stack.fromMax
  /\ stack.result # stack.toMax

\* C9: for a range constructed with start <= one_after_last, size() is
\* one_after_last - start, and the loop from begin() to end() ends after
\* exactly that many steps, having yielded start, start + 1, ...,
\* one_after_last - 1 in order.
C9_SizeAndIteration ==
  range_pc \in {"constructed", "loop", "done"} =>
    /\ size_result # NoResult => size_result = m_one_after_last - m_start
    /\ \A i \in DOMAIN yielded : yielded[i] = m_start + i - 1
    /\ Len(yielded) <= m_one_after_last - m_start
    /\ range_pc = "done" => Len(yielded) = m_one_after_last - m_start
    /\ (range_pc = "done" /\ size_result # NoResult) => Len(yielded) = size_result

\* C10: for a range constructed with start <= one_after_last, contains(v) is
\* true exactly when start <= v < one_after_last: never on an empty range, and
\* exactly for the values the loop over the range yielded.
C10_ContainsIffWithin ==
  (range_pc = "done" /\ contains_result # NoResult) =>
    /\ contains_result = 1 <=>
         (m_start <= contains_arg /\ contains_arg < m_one_after_last)
    /\ m_start = m_one_after_last => contains_result = 0
    /\ contains_result = 1 <=> \E i \in DOMAIN yielded : yielded[i] = contains_arg

\* C10 witness: contains answered true on a signed range that starts below
\* zero and holds several values, and false on a value the range's end
\* excludes.
C10_Witness ==
  /\ range_pc = "done"
  /\ range_T = "int"
  /\ m_start < 0
  /\ Len(yielded) >= 2
  /\ contains_result = 1
  /\ contains_arg = m_one_after_last - 1

\* C11: for a range constructed with start <= one_after_last and offset, n with
\* offset + n <= one_after_last - start, slice(offset, n) passes its assertion
\* and returns the range [start + offset, start + offset + n), which passes the
\* constructor's assertion, has n elements and lies within the original.
C11_SliceWithinRange ==
  (/\ sliced # NoCall
   /\ sliced.start + sliced.size <= m_one_after_last - m_start) =>
    /\ sliced.assert_ok
    /\ sliced.constructed
    /\ sliced.m_start = m_start + sliced.start
    /\ sliced.m_one_after_last = m_start + sliced.start + sliced.size
    /\ \A v \in TValues(range_T) :
         contains(sliced.m_start, sliced.m_one_after_last, v) =>
           contains(m_start, m_one_after_last, v)

\* C12: the constructor's assertion fails exactly for start > one_after_last;
\* every construction with start <= one_after_last, the empty range
\* included, passes it, also the one slice() makes.
C12_ConstructorAssertion ==
  /\ range_pc # "idle" => (range_pc = "assert_failed" <=> m_start > m_one_after_last)
  /\ sliced # NoCall =>
       (sliced.constructed <=> sliced.m_start <= sliced.m_one_after_last)

\* C12 witness: a construction with start > one_after_last failed the assertion.
C12_Witness ==
  /\ range_pc = "assert_failed"
  /\ m_start > m_one_after_last
  /\ range_T = "int"
  /\ m_one_after_last < 0

\* C13: a == b is true exactly when a and b contain the same numbers.
C13_EqualIffSameNumbers ==
  compared # NoCall =>
    (compared.equal <=>
       \A v \in TValues(range_T) :
         contains(m_start, m_one_after_last, v)
           <=> contains(compared.m_start, compared.m_one_after_last, v))

\* C14: a call of lanpr_generate_gpencil_from_chain that finds no shared buffer
\* prints its diagnostic and returns; one in a master mode other than the
\* software mode returns as well; neither adds a stroke to the target frame,
\* marks a chain picked or changes the buffer.
C14_HelperReturnsEarly ==
  [][(/\ log = <<>>
      /\ log' # <<>>
      /\ log'[1].ev = "generate"
      /\ ~render_buffer_shared.exists \/ master_mode # "SOFTWARE")
     => /\ render_buffer_shared' = render_buffer_shared
        /\ gp' = gp
        /\ \A i \in DOMAIN log' : log'[i].ev \notin {"pass", "stroke"}
        /\ IF render_buffer_shared.exists
             THEN Len(log') = 1
             ELSE Len(log') = 2 /\ log'[2].ev = "null_rb"]_vars

\* C14 witness: the helper was called without a shared buffer and printed its
\* diagnostic; the target frame holds the stroke it held before.
C14_Witness ==
  /\ log # <<>>
  /\ log[1].ev = "generate"
  /\ ~render_buffer_shared.exists
  /\ log[Len(log)].ev = "null_rb"
  /\ Len(gp["G1"][1].frames[1].strokes) = 1

\* The acceptance condition of a chain in a pass with the arguments a.
Accepts(rlc, a) ==
  /\ ~rlc.picked
  /\ a.ob # "NULL" => rlc.object_ref = a.ob
  /\ (a.col # "NULL" /\ rlc.object_ref # "NULL") =>
       BKE_collection_has_object_recursive(a.col, rlc.object_ref)
  /\ rlc.type \cap a.types # {}
  /\ a.qi_begin <= rlc.level
  /\ rlc.level <= a.qi_end

\* The indices i in 1 .. n of the chains the pass accepts, in order.
RECURSIVE AcceptedUpTo(_, _, _)
AcceptedUpTo(chains, a, n) ==
  IF n = 0 THEN <<>>
  ELSE IF Accepts(chains[n], a) THEN Append(AcceptedUpTo(chains, a, n - 1), n)
  ELSE AcceptedUpTo(chains, a, n - 1)

\* C17: one pass over a buffer, in software mode, visits the chains once in list
\* order; a chain gets a stroke and becomes picked exactly when it is not
\* picked, belongs to the source object when one is given, lies in the
\* collection when one is given and the chain has an object, shares a type
\* with the mask and has its level within qi_begin .. qi_end; other chains are
\* left as they are, and each stroke, appended to the target frame in list
\* order, has as many points as its chain has items.
C17_EmissionFilters ==
  [][(/\ log = <<>>
      /\ log' # <<>>
      /\ log'[1].ev = "generate"
      /\ render_buffer_shared.exists
      /\ master_mode = "SOFTWARE")
     => LET a == log'[1].k
            old == render_buffer_shared.chains
            acc == AcceptedUpTo(old, a, Len(old))
        IN  /\ DOMAIN render_buffer_shared'.chains = DOMAIN old
            /\ \A i \in DOMAIN old :
                 render_buffer_shared'.chains[i] =
                   IF Accepts(old[i], a) THEN [old[i] EXCEPT !.picked = TRUE] ELSE old[i]
            /\ gp'[a.g][a.l + 1].frames[a.f].strokes =
                 gp[a.g][a.l + 1].frames[a.f].strokes
                   \o [k \in DOMAIN acc |->
                         [totpoints |-> old[acc[k]].items, mat_nr |-> a.material_nr]]
            /\ Len(log') = 2 + Len(acc)
            /\ \A k \in DOMAIN acc :
                 log'[2 + k].ev = "stroke" /\ log'[2 + k].n = acc[k]]_vars

\* C17 witness: a pass with a collection given emitted strokes for two chains,
\* one of them without an object, and left a chain unpicked.
C17_Witness ==
  /\ log # <<>>
  /\ log[1].ev = "generate"
  /\ log[1].k.col # "NULL"
  /\ Len(log) = 4
  /\ \E i \in 3 .. 4 :
       render_buffer_shared.chains[log[i].n].object_ref = "NULL"
  /\ \E c \in DOMAIN render_buffer_shared.chains :
       ~render_buffer_shared.chains[c].picked

\* C18: when a stroke-emitting operator returns, no frame it emitted into still
\* carries GP_FRAME_LANPR_CLEARED; so an invocation with overwriting allowed
\* leaves on each frame it emitted into the strokes it emitted and no others.
C18_ClearedFlagScopedToInvocation ==
  OpName \in EmittingOps =>
    \A i \in DOMAIN log :
      log[i].ev \in {"free", "kept"} =>
        /\ ~gp[log[i].g][log[i].l + 1].frames[log[i].f].flag
        /\ log[1].n = 1 =>
             Len(gp[log[i].g][log[i].l + 1].frames[log[i].f].strokes) =
               Cardinality({j \in DOMAIN log :
                              log[j].ev = "stroke" /\ SameFrame(log[j], log[i])})


(***************************************************************************)
(* The line layers of the scenes.  A node of the heap is a LANPR_LineLayer *)
(* or a LANPR_LineLayerComponent; its address is its index in mem.  A list *)
(* (ListBase) is the sequence of the addresses of its nodes, first to      *)
(* last.  data stands for the plain fields of the struct that memcpy       *)
(* carries over, freed counts the MEM_freeN calls on the node.             *)
(***************************************************************************)
MaxLayers == 2

MaxComponents == 2

\* Two contents of the plain fields of a node, to tell nodes apart; a node
\* fresh from MEM_callocN has the content 0.
NodeDatas ==
  {1, 2}

LayerScenes ==
  {"A", "B"}

Node(type, data, components) ==
  [type |-> type, data |-> data, components |-> components, freed |-> 0]

\* MEM_callocN(size, name): a zeroed node at a new address, Len(m) + 1
MEM_callocN(m, type) ==
  Append(m, Node(type, 0, <<>>))

\* MEM_freeN(n)
MEM_freeN(m, n) ==
  [m EXCEPT ![n].freed = @ + 1]

\* memcpy(dst, src, sizeof(struct)): every field of the struct, the list
\* handle of a layer's components included
memcpy(m, dst, src) ==
  [m EXCEPT ![dst].data = m[src].data, ![dst].components = m[src].components]

\* list_handle_empty(&list): the handle forgets its nodes, nothing is freed
list_handle_empty(list) ==
  <<>>

\* BLI_addtail(&list, n)
BLI_addtail(list, n) ==
  Append(list, n)

\* The inner loop of ED_lanpr_copy_data from the i-th component of ll on:
\* a new node per component, appended to new_ll's components.
RECURSIVE CopyComponents(_, _, _, _)
CopyComponents(m, new_ll, components, i) ==
  IF i > Len(components) THEN m
  ELSE LET new_llc == Len(m) + 1
           m1 == memcpy(MEM_callocN(m, "LineLayerComponent"), new_llc, components[i])
           m2 == [m1 EXCEPT ![new_ll].components = BLI_addtail(@, new_llc)]
       IN  CopyComponents(m2, new_ll, components, i + 1)

\* The body of the outer loop with list_handle_empty(&new_ll->components)
\* left out: the copy keeps the handle memcpy gave it, which holds ll's own
\* component nodes.
CopyLayer_shared_components(m, ll) ==
  LET new_ll == Len(m) + 1
      m1 == memcpy(MEM_callocN(m, "LineLayer"), new_ll, ll)
  IN  [mem |-> CopyComponents(m1, new_ll, m[ll].components, 1), new_ll |-> new_ll]

\* The body of the outer loop of ED_lanpr_copy_data for the layer ll.
CopyLayer(m, ll) ==
  LET new_ll == Len(m) + 1
      m1 == memcpy(MEM_callocN(m, "LineLayer"), new_ll, ll)
      m2 == [m1 EXCEPT ![new_ll].components = list_handle_empty(@)]
  IN  [mem |-> CopyComponents(m2, new_ll, m[ll].components, 1), new_ll |-> new_ll]

RECURSIVE CopyLayers(_, _, _, _)
CopyLayers(m, to_list, from_list, i) ==
  IF i > Len(from_list) THEN [mem |-> m, line_layers |-> to_list]
  ELSE LET c == CopyLayer(m, from_list[i])
       IN  CopyLayers(c.mem, BLI_addtail(to_list, c.new_ll), from_list, i + 1)

\* ED_lanpr_copy_data(from, to)
ED_lanpr_copy_data(m, lists, from, to) ==
  LET c == CopyLayers(m, list_handle_empty(lists[to]), lists[from], 1)
  IN  [mem |-> c.mem, line_layers |-> [lists EXCEPT ![to] = c.line_layers]]

\* while (llc = BLI_pophead(&ll->components)) MEM_freeN(llc);
RECURSIVE FreeComponents(_, _)
FreeComponents(m, ll) ==
  IF m[ll].components = <<>> THEN m
  ELSE LET llc == Head(m[ll].components)
           m1 == [m EXCEPT ![ll].components = Tail(@)]
       IN  FreeComponents(MEM_freeN(m1, llc), ll)

\* while (ll = BLI_pophead(&lanpr->line_layers)) { ...; MEM_freeN(ll); }
RECURSIVE FreeLayers(_, _)
FreeLayers(m, list) ==
  IF list = <<>> THEN m
  ELSE LET ll == Head(list)
       IN  FreeLayers(MEM_freeN(FreeComponents(m, ll), ll), Tail(list))

\* ED_lanpr_free_everything(s)
ED_lanpr_free_everything(m, lists, s) ==
  [mem |-> FreeLayers(m, lists[s]), line_layers |-> [lists EXCEPT ![s] = <<>>]]

\* The components a scene may give a layer, and the layers it may have.
ComponentDatas ==
  UNION {[1..n -> NodeDatas] : n \in 0..MaxComponents}

LayerShapes ==
  UNION {[1..n -> [data : NodeDatas, components : ComponentDatas]] : n \in 0..MaxLayers}

RECURSIVE BuildComponents(_, _, _, _)
BuildComponents(m, ll, datas, i) ==
  IF i > Len(datas) THEN m
  ELSE LET llc == Len(m) + 1
           m1 == Append(m, Node("LineLayerComponent", datas[i], <<>>))
       IN  BuildComponents([m1 EXCEPT ![ll].components = BLI_addtail(@, llc)], ll, datas, i + 1)

RECURSIVE BuildLayers(_, _, _, _)
BuildLayers(m, list, shape, i) ==
  IF i > Len(shape) THEN [mem |-> m, line_layers |-> list]
  ELSE LET ll == Len(m) + 1
           m1 == Append(m, Node("LineLayer", shape[i].data, <<>>))
       IN  BuildLayers(BuildComponents(m1, ll, shape[i].components, 1),
                       BLI_addtail(list, ll), shape, i + 1)

\* Scene A owns its layers; scene B is a duplicate of A in the making: its
\* struct is a copy of A's, so its list handle still holds A's nodes.
InitLineLayers ==
  /\ \E shape \in LayerShapes :
       LET b == BuildLayers(<<>>, <<>>, shape, 1)
       IN  /\ mem = b.mem
           /\ line_layers = [s \in LayerScenes |-> b.line_layers]
  /\ scene_pc = [s \in LayerScenes |-> IF s = "A" THEN "live" ELSE "duplicated"]
  /\ PaletteIdle
  /\ RangeIdle
  /\ MapRangeIdle
  /\ LanprIdle

CopyData(from, to) ==
  /\ from # to
  /\ scene_pc[from] = "live"
  /\ scene_pc[to] = "duplicated"
  /\ LET c == ED_lanpr_copy_data(mem, line_layers, from, to)
     IN  /\ mem' = c.mem
         /\ line_layers' = c.line_layers
  /\ scene_pc' = [scene_pc EXCEPT ![to] = "live"]
  /\ UNCHANGED <<palette_vars, range_vars, map_range_vars, lanpr_vars>>

FreeEverything(s) ==
  /\ scene_pc[s] = "live"
  /\ LET c == ED_lanpr_free_everything(mem, line_layers, s)
     IN  /\ mem' = c.mem
         /\ line_layers' = c.line_layers
  /\ scene_pc' = [scene_pc EXCEPT ![s] = "freed"]
  /\ UNCHANGED <<palette_vars, range_vars, map_range_vars, lanpr_vars>>

NextLineLayers ==
  \/ \E from \in LayerScenes, to \in LayerScenes : CopyData(from, to)
  \/ \E s \in LayerScenes : FreeEverything(s)

SpecLineLayers ==
  InitLineLayers /\ [][NextLineLayers]_vars

\* The nodes reachable from the scene s: its layers and their components.
Reachable(m, lists, s) ==
  {lists[s][i] : i \in 1..Len(lists[s])}
    \cup UNION {{m[lists[s][i]].components[j] : j \in 1..Len(m[lists[s][i]].components)} :
                  i \in 1..Len(lists[s])}

\* What a list of layers holds, by position: the data of each layer and of
\* each of its components.
Shape(m, list) ==
  [i \in 1..Len(list) |->
     [data |-> m[list[i]].data,
      components |-> [j \in 1..Len(m[list[i]].components) |->
                        m[m[list[i]].components[j]].data]]]

\* C16: after ED_lanpr_copy_data(from, to), to's list has from's layers and
\* components by number, order and content, from's list is as it was, and
\* no node is reachable from both scenes; ED_lanpr_free_everything(s) frees
\* every node reachable from s exactly once, empties s's list, and leaves
\* the lists and the nodes of every other live scene as they were, unfreed.
C16_SceneExclusiveOwnership ==
  [][/\ \A from \in LayerScenes, to \in LayerScenes :
          (from # to /\ scene_pc[from] = "live"
             /\ scene_pc[to] = "duplicated" /\ scene_pc'[to] = "live")
          => /\ Shape(mem', line_layers'[to]) = Shape(mem, line_layers[from])
             /\ Shape(mem', line_layers'[from]) = Shape(mem, line_layers[from])
             /\ line_layers'[from] = line_layers[from]
             /\ Reachable(mem', line_layers', to) \cap Reachable(mem', line_layers', from) = {}
             /\ \A n \in Reachable(mem', line_layers', to) : mem'[n].freed = 0
     /\ \A s \in LayerScenes :
          (scene_pc[s] = "live" /\ scene_pc'[s] = "freed")
          => /\ \A n \in Reachable(mem, line_layers, s) : mem'[n].freed = 1
             /\ line_layers'[s] = <<>>
             /\ \A t \in LayerScenes \ {s} :
                  scene_pc[t] = "live"
                  => /\ line_layers'[t] = line_layers[t]
                     /\ \A n \in Reachable(mem, line_layers, t) :
                          mem'[n] = mem[n] /\ mem'[n].freed = 0]_vars

\* Scene A, with MaxLayers layers of MaxComponents components each, was
\* copied to B and then freed; B still has its own unfreed copy.
C16_Witness ==
  /\ scene_pc # <<>>
  /\ scene_pc["A"] = "freed"
  /\ scene_pc["B"] = "live"
  /\ Len(line_layers["B"]) = MaxLayers
  /\ \A i \in 1..MaxLayers : Len(mem[line_layers["B"][i]].components) = MaxComponents
  /\ \A n \in Reachable(mem, line_layers, "B") : mem[n].freed = 0
  /\ Cardinality({n \in 1..Len(mem) : mem[n].freed = 1}) = MaxLayers * (1 + MaxComponents)

(***************************************************************************)
(* The palette RNA.  A color is its address; colors lists the addresses of *)
(* the palette's colors, first to last, and the index of a color is its    *)
(* position less one.  A name is a base and a number: [base |-> "a",       *)
(* number |-> 0] is "a", [base |-> "a", number |-> 1] is "a.001".          *)
(***************************************************************************)
MaxColors == 3

MaxCalls == 2

NULL ==
  0

\* The colors there are: those of the palette and one of another palette.
AllColors ==
  1..(MaxColors + 1)

Name(base, number) ==
  [base |-> base, number |-> number]

\* The names a caller may pass to the setter; "" is the empty string.
NameValues ==
  {"a", "b", ""}

\* BLI_findindex(&list, link): the index of link in the list, -1 if absent
BLI_findindex(list, link) ==
  IF \E i \in 1..Len(list) : list[i] = link
    THEN (CHOOSE i \in 1..Len(list) : list[i] = link) - 1
    ELSE 0 - 1

\* BLI_findlink(&list, number): the link at the index, NULL if there is none
BLI_findlink(list, number) ==
  IF number >= 0 /\ number < Len(list) THEN list[number + 1] ELSE NULL

\* BLI_uniquename(&list, link, defname, '.', ...) applied to the name the
\* setter has just stored: an empty name becomes defname, a name another
\* link of the list has gets the lowest free number.
BLI_uniquename(list, names, link, name, defname) ==
  LET base == IF name = "" THEN defname ELSE name
      taken == {names[list[i]] : i \in {j \in 1..Len(list) : list[j] # link}}
  IN  IF Name(base, 0) \notin taken THEN Name(base, 0)
      ELSE Name(base, CHOOSE k \in 1..Len(list) :
                        /\ Name(base, k) \notin taken
                        /\ \A l \in 1..(k - 1) : Name(base, l) \in taken)

\* BKE_palette_color_remove(palette, color): unlinks and frees the color.
\* What it does to the active index is not known here: active_after.
BKE_palette_color_remove(p, color, active_after) ==
  [p EXCEPT !.colors = SelectSeq(p.colors, LAMBDA c : c # color),
            !.active_color = active_after]

\* The function without its membership test.
rna_Palette_color_remove_unchecked(p, color, active_after) ==
  [BKE_palette_color_remove(p, color, active_after) EXCEPT !.color_ptr.valid = FALSE]

\* rna_Palette_color_remove(palette, reports, color_ptr) on the palette
\* state p = [colors, info, active_color, reports, color_ptr].
rna_Palette_color_remove(p, color, active_after) ==
  IF BLI_findindex(p.colors, color) = 0 - 1
    THEN [p EXCEPT !.reports = Append(@, "Palette does not contain color given")]
    ELSE [BKE_palette_color_remove(p, color, active_after) EXCEPT !.color_ptr.valid = FALSE]

\* rna_Palette_active_color_set(ptr, value)
rna_Palette_active_color_set(p, color) ==
  IF color = NULL
    THEN [p EXCEPT !.active_color = 0 - 1]
    ELSE [p EXCEPT !.active_color = BLI_findindex(p.colors, color)]

\* The color rna_PaletteColor_info_set works on.  ptr->data, the color the
\* property belongs to, is not read.
info_set_palcolor(p) ==
  BLI_findlink(p.colors, p.active_color)

\* rna_PaletteColor_info_set(ptr, value) when palcolor is not NULL
rna_PaletteColor_info_set(p, value) ==
  LET palcolor == info_set_palcolor(p)
      copied == [p.info EXCEPT ![palcolor] = Name(value, 0)]
  IN  [p EXCEPT !.info = [copied EXCEPT ![palcolor] =
                            BLI_uniquename(p.colors, copied, palcolor, value, "Color")]]

Palette ==
  [colors |-> colors, info |-> info, active_color |-> active_color,
   reports |-> reports, color_ptr |-> color_ptr]

Call(fn, value) ==
  [n |-> rna_call.n + 1, fn |-> fn, value |-> value]

CanCall ==
  /\ palette_pc # "crashed"
  /\ rna_call.n < MaxCalls

\* The names the palette's colors have at first: pairwise distinct.
InitNames ==
  {Name("a", 0), Name("b", 0), Name("a", 1), Name("Color", 0)}

InitPalette ==
  /\ \E n \in 0..MaxColors :
       /\ colors = [i \in 1..n |-> i]
       /\ active_color \in (0 - 1)..n
       /\ \E names \in [1..n -> InitNames] :
            /\ \A i \in 1..n, j \in 1..n : i # j => names[i] # names[j]
            /\ info = [c \in AllColors |-> IF c <= n THEN names[c] ELSE Name("a", 0)]
  /\ reports = <<>>
  /\ color_ptr = [data |-> NULL, valid |-> TRUE]
  /\ rna_call = [n |-> 0, fn |-> "", value |-> ""]
  /\ palette_pc = "idle"
  /\ LayersIdle
  /\ RangeIdle
  /\ MapRangeIdle
  /\ LanprIdle

Returned_palette(p, fn, value) ==
  /\ colors' = p.colors
  /\ info' = p.info
  /\ active_color' = p.active_color
  /\ reports' = p.reports
  /\ color_ptr' = p.color_ptr
  /\ rna_call' = Call(fn, value)
  /\ palette_pc' = "returned"
  /\ UNCHANGED <<layer_vars, range_vars, map_range_vars, lanpr_vars>>

\* palette.colors.remove(color), with the color of any palette
ColorRemove(color) ==
  /\ CanCall
  /\ \E active_after \in (0 - 1)..Len(colors) :
       Returned_palette(
         rna_Palette_color_remove([Palette EXCEPT !.color_ptr = [data |-> color, valid |-> TRUE]],
                                  color, active_after),
         "color_remove", "")

\* palette.colors.active = color (NULL for None)
ActiveColorSet(color) ==
  /\ CanCall
  /\ Returned_palette(
       rna_Palette_active_color_set([Palette EXCEPT !.color_ptr = [data |-> color, valid |-> TRUE]],
                                    color),
       "active_color_set", "")

\* palette.active_index = index: a plain int property without a range
ActiveIndexSet(index) ==
  /\ CanCall
  /\ Returned_palette([Palette EXCEPT !.active_color = index,
                                      !.color_ptr = [data |-> NULL, valid |-> TRUE]],
                      "active_index", "")

\* color.name = value, for a color of the palette.  With no color at the
\* active index palcolor is NULL and palcolor->info is read and written
\* through it: the call crashes, or returns having changed nothing of the
\* palette.
InfoSet(color, value) ==
  /\ CanCall
  /\ \E i \in 1..Len(colors) : colors[i] = color
  /\ LET p == [Palette EXCEPT !.color_ptr = [data |-> color, valid |-> TRUE]]
     IN  IF info_set_palcolor(p) = NULL
           THEN /\ palette_pc' \in {"crashed", "returned"}
                /\ color_ptr' = p.color_ptr
                /\ rna_call' = Call("info_set", value)
                /\ UNCHANGED <<colors, info, active_color, reports,
                               layer_vars, range_vars, map_range_vars, lanpr_vars>>
           ELSE Returned_palette(rna_PaletteColor_info_set(p, value), "info_set", value)

NextPalette ==
  \/ \E color \in AllColors : ColorRemove(color)
  \/ \E color \in AllColors \cup {NULL} : ActiveColorSet(color)
  \/ \E index \in (0 - 1)..MaxColors : ActiveIndexSet(index)
  \/ \E color \in AllColors, value \in NameValues : InfoSet(color, value)

SpecPalette ==
  InitPalette /\ [][NextPalette]_vars

\* The step is a call of the RNA function fn.
Calls(fn) ==
  rna_call'.n = rna_call.n + 1 /\ rna_call'.fn = fn

Member(list, color) ==
  \E i \in 1..Len(list) : list[i] = color

\* C15: rna_Palette_color_remove with a color that is not in the palette's
\* list adds one error to the report list and changes nothing else: the
\* colors and their order, the names, the active index and the validity of
\* the caller's reference stay; with a color of the list, the color leaves
\* the list, the others keep their order, nothing is reported and the
\* caller's reference is invalidated.
C15_RemoveReportsNonMember ==
  [][Calls("color_remove")
     => LET color == color_ptr'.data
        IN  IF ~Member(colors, color)
              THEN /\ Len(reports') = Len(reports) + 1
                   /\ SubSeq(reports', 1, Len(reports)) = reports
                   /\ colors' = colors
                   /\ info' = info
                   /\ active_color' = active_color
                   /\ color_ptr'.valid
              ELSE /\ ~Member(colors', color)
                   /\ colors' = SelectSeq(colors, LAMBDA c : c # color)
                   /\ reports' = reports
                   /\ ~color_ptr'.valid]_vars

\* A color of another palette was given to remove() of a palette that has
\* colors: the error is on the report list and the reference is valid.
C15_Witness ==
  /\ rna_call # NoCall
  /\ rna_call.fn = "color_remove"
  /\ color_ptr.valid
  /\ ~Member(colors, color_ptr.data)
  /\ colors # <<>>
  /\ reports # <<>>

\* C19: rna_PaletteColor_info_set on a color of the palette returns, gives
\* that color the name passed (the default name for an empty one, a number
\* added where needed), leaves the name of every other color as it was, and
\* leaves the names of the palette's colors pairwise distinct, whatever the
\* active index is.
C19_RenamesOwnColor ==
  [][Calls("info_set")
     => LET color == color_ptr'.data
            value == rna_call'.value
        IN  /\ palette_pc' = "returned"
            /\ info'[color].base = (IF value = "" THEN "Color" ELSE value)
            /\ \A c \in AllColors \ {color} : info'[c] = info[c]
            /\ \A i \in 1..Len(colors'), j \in 1..Len(colors') :
                 i # j => info'[colors'[i]] # info'[colors'[j]]]_vars

=============================================================================
